---- MODULE Spec2Model ----
(***************************************************************************)
(* deel2pdf: review-feedback rows -> one PDF per group.                    *)
(*                                                                         *)
(* Text is a sequence of Unicode code points.  A Python value that may be  *)
(* a number, a string or a missing marker is a tagged record (Num, Str,    *)
(* Missing).  Three specifications share the definitions:                  *)
(*   SpecSan     clean_text applied once and then again to its own result  *)
(*   SpecRender  render_html_comment on one parsed comment                 *)
(*   Spec        generate_pdfs on a grouped sheet                          *)
(***************************************************************************)
EXTENDS Integers, Sequences, FiniteSets, TLC

VARIABLES
    pc,      \* position of the running program
    sanIn,   \* SpecSan: the argument of clean_text
    sanOut,  \* SpecSan: <<clean_text(x)>>, then <<clean_text(x), clean_text(clean_text(x))>>
    html,    \* SpecRender: the html_content argument of render_html_comment
    pdf,     \* the FPDF object: current style and size, emitted blocks
    out,     \* standard output: the sequence of print calls
    thrown,  \* the pending exception (NoExc when none)
    rows,    \* Spec: the sheet, a sequence of rows
    gi,      \* Spec: index of the group being generated
    ti,      \* Spec: index into feedback_type_mapping
    ri,      \* Spec: index into the rows of the current section
    files,   \* Spec: the output directory, file name -> group whose document the file holds
    log      \* Spec: history of the comment fields rendered for the current document

vars == <<pc, sanIn, sanOut, html, pdf, out, thrown, rows, gi, ti, ri, files, log>>

(***************************************************************************)
(* Bounds                                                                  *)
(***************************************************************************)
MaxStrLen == 3
MaxListNodes == 7
MaxNodes == 3
MaxRows == 2
MaxTableDepth == 2

(***************************************************************************)
(* Python values and strings                                               *)
(***************************************************************************)
Num(n) == [tag |-> "num", num |-> n, str |-> <<>>]
Str(s) == [tag |-> "str", num |-> 0, str |-> s]
Missing == [tag |-> "missing", num |-> 0, str |-> <<>>]

SP == 32
BULLET == 8226
REPLACEMENT == 65533
BMP_MAX == 65535

\* the characters str.strip() removes (those that can occur here)
WhiteSpace == {9, 10, 11, 12, 13, 28, 29, 30, 31, 32, 133, 160}

RECURSIVE Digits(_)
Digits(n) == IF n < 10 THEN <<48 + n>> ELSE Digits(n \div 10) \o <<48 + (n % 10)>>

\* str(x)
PyStr(v) == IF v.tag = "num" THEN Digits(v.num) ELSE v.str

RECURSIVE LStrip(_)
LStrip(s) == IF s # <<>> /\ Head(s) \in WhiteSpace THEN LStrip(Tail(s)) ELSE s

RECURSIVE RStrip(_)
RStrip(s) ==
    IF s # <<>> /\ s[Len(s)] \in WhiteSpace THEN RStrip(SubSeq(s, 1, Len(s) - 1)) ELSE s

Strip(s) == LStrip(RStrip(s))

\* sep.join(parts)
RECURSIVE Join(_, _)
Join(sep, parts) ==
    IF parts = <<>> THEN <<>>
    ELSE IF Len(parts) = 1 THEN parts[1]
    ELSE parts[1] \o sep \o Join(sep, Tail(parts))

\* s.replace(" ", "_")
ReplaceSpace(s) == [i \in 1..Len(s) |-> IF s[i] = SP THEN 95 ELSE s[i]]

RECURSIVE Repeat(_, _)
Repeat(s, n) == IF n = 0 THEN <<>> ELSE s \o Repeat(s, n - 1)

(***************************************************************************)
(* clean_text                                                              *)
(***************************************************************************)
SENTINEL == <<84,72,69,82,69,32,73,83,32,78,79,32,84,69,88,84,33,33,33,33>>  \* "THERE IS NO TEXT!!!!"

\* pd.isna(text)
IsNa(v) == v.tag = "missing"

\* the list `removed` that clean_text prints when it is not empty
removed(v) ==
    IF IsNa(v) THEN <<>> ELSE SelectSeq(PyStr(v), LAMBDA c : c > BMP_MAX)

\* a clean_text that drops the characters above U+FFFF
clean_text_drop(v) ==
    IF IsNa(v) THEN SENTINEL ELSE SelectSeq(PyStr(v), LAMBDA c : c <= BMP_MAX)

\* a clean_text that takes repr(text) for str(text)
clean_text_repr(v) ==
    IF IsNa(v) THEN SENTINEL
    ELSE LET original == <<39>> \o PyStr(v) \o <<39>>
         IN  [i \in 1..Len(original) |->
                 IF original[i] <= BMP_MAX THEN original[i] ELSE REPLACEMENT]

clean_text(v) ==
    IF IsNa(v) THEN SENTINEL
    ELSE LET original == PyStr(v)
         IN  [i \in 1..Len(original) |->
                 IF original[i] <= BMP_MAX THEN original[i] ELSE REPLACEMENT]

\* the print calls of one clean_text call
clean_text_prints(v) ==
    IF removed(v) # <<>> THEN <<[msg |-> "Removed/marked non-BMP characters", val |-> Str(removed(v))]>>
    ELSE <<>>

(***************************************************************************)
(* The parsed markup tree (BeautifulSoup).  A node is a record: name is    *)
(* the tag name, "#text" for a NavigableString; text is the string of a    *)
(* text node; kids is the sequence of children (tag.contents).             *)
(***************************************************************************)
TextNode(t) == [name |-> "#text", text |-> t, kids |-> <<>>]
Tag(name, kids) == [name |-> name, text |-> <<>>, kids |-> kids]

IsText(n) == n.name = "#text"

RECURSIVE AllStrings(_)
\* the strings of a node and its descendants, in document order
AllStrings(n) ==
    IF IsText(n) THEN <<n.text>>
    ELSE LET F[i \in 0..Len(n.kids)] ==
                 IF i = 0 THEN <<>> ELSE F[i - 1] \o AllStrings(n.kids[i])
         IN  F[Len(n.kids)]

\* tag.get_text()
get_text(n) == Join(<<>>, AllStrings(n))

\* tag.get_text(strip=True): every string stripped, the empty ones left out
get_text_strip(n) ==
    LET strings == AllStrings(n)
        stripped == [i \in 1..Len(strings) |-> Strip(strings[i])]
    IN  Join(<<>>, SelectSeq(stripped, LAMBDA t : t # <<>>))

RECURSIVE HasTag(_, _)
\* a node named `name` among these nodes or their descendants
HasTag(kids, name) ==
    \E i \in 1..Len(kids) : kids[i].name = name \/ HasTag(kids[i].kids, name)

\* a table search that looks at the top-level nodes only
soup_find_table_toplevel(kids) == \E i \in 1..Len(kids) : kids[i].name = "table"

\* soup.find("table")
soup_find_table(kids) == HasTag(kids, "table")

\* positions of tag.find_all("li", recursive=False) in tag.contents
LiPositions(kids) ==
    SelectSeq([i \in 1..Len(kids) |-> i], LAMBDA i : kids[i].name = "li")

(***************************************************************************)
(* Canvas commands.  The renderer is translated to the sequence of calls   *)
(* it makes on the FPDF object and on stdout; RunOps executes them.  kind  *)
(* and src record which node or field made an emission and where it is in  *)
(* the tree.                                                               *)
(***************************************************************************)
Op(op, style, size, args, kind, src) ==
    [op |-> op, style |-> style, size |-> size, args |-> args, kind |-> kind, src |-> src]

SetFont(style, size) == Op("set_font", style, size, <<>>, "", <<>>)
Ln(h) == Op("ln", "", 0, <<Num(h)>>, "", <<>>)
Echo(msg, val) == Op("echo", "", 0, <<val>>, msg, <<>>)
SafeCell(w, h, txt, kind, src) == Op("cell", "", 0, <<Num(w), Num(h), Str(txt)>>, kind, src)
SafeMultiCell(w, h, txt, kind, src) ==
    Op("multi_cell", "", 0, <<Num(w), Num(h), Str(txt)>>, kind, src)

CleanEchoes(v) ==
    LET pr == clean_text_prints(v)
    IN  [i \in 1..Len(pr) |-> Echo(pr[i].msg, pr[i].val)]

IsEmission(o) == o.op \in {"cell", "multi_cell"}

(***************************************************************************)
(* render_list_item and render_html_comment                                *)
(***************************************************************************)
INDENT_UNIT == <<SP, SP, SP, SP>>
NO_COMMENT == <<78,111,32,99,111,109,109,101,110,116,32,112,114,111,118,105,100,101,100,46>>  \* "No comment provided."

\* a nested numbering that labels every item with the initial "1."
SubBullet_first(name, j) == IF name = "ul" THEN <<BULLET>> ELSE <<49, 46>>

\* the bullet of the j-th item of a nested list: sub_bullet or f"{j}."
SubBullet(name, j) == IF name = "ul" THEN <<BULLET>> ELSE Digits(j) \o <<46>>

\* the bullet of the i-th item of a top-level list
TopBullet(name, i) == IF name = "ul" THEN <<BULLET>> ELSE Digits(i) \o <<46>>

\* a text node emitted in whatever style the canvas is in
TextNodeEmit_keepStyle(txt, path) == <<SafeMultiCell(0, 6, txt, "text", path)>>

\* the emission of a non-blank text node
TextNodeEmit(txt, path) == <<SetFont("", 10), SafeMultiCell(0, 6, txt, "text", path)>>

\* a string appended to `content` by the loop of render_list_item
Content(txt) == Op("content", "", 0, <<Str(txt)>>, "", <<>>)

RECURSIVE render_list_item(_, _, _, _)
RECURSIVE LiLoop(_, _, _)
RECURSIVE RenderSubItems(_, _, _)

\* the loop over li.contents, as the sequence of what it does: the strings
\* it appends to `content` and the calls it makes (each nested list is
\* rendered inside the loop, when the loop comes to it)
LiLoop(kids, indent, path) ==
    LET Here(i) ==
            LET child == kids[i]
            IN  IF IsText(child) THEN
                    IF Strip(child.text) # <<>>
                    THEN CleanEchoes(Str(Strip(child.text)))
                             \o <<Content(clean_text(Str(Strip(child.text))))>>
                    ELSE <<>>
                ELSE IF child.name \in {"ul", "ol"} THEN
                    RenderSubItems(child, indent + 1, path \o <<i>>)
                ELSE
                    \* p, span and every other tag: the flattened, stripped text
                    IF get_text_strip(child) # <<>>
                    THEN CleanEchoes(Str(get_text_strip(child)))
                             \o <<Content(clean_text(Str(get_text_strip(child))))>>
                    ELSE <<>>
        F[i \in 0..Len(kids)] == IF i = 0 THEN <<>> ELSE F[i - 1] \o Here(i)
    IN  F[Len(kids)]

\* the items of a nested list, each at the given indent
RenderSubItems(list, indent, path) ==
    LET pos == LiPositions(list.kids)
        F[j \in 0..Len(pos)] ==
            IF j = 0 THEN <<>>
            ELSE F[j - 1] \o render_list_item(list.kids[pos[j]], SubBullet(list.name, j),
                                               indent, path \o <<pos[j]>>)
    IN  F[Len(pos)]

render_list_item(li, bullet, indent, path) ==
    LET indent_str == Repeat(INDENT_UNIT, indent)
        loop == LiLoop(li.kids, indent, path)
        collected == SelectSeq(loop, LAMBDA e : e.op = "content")
        content == [k \in 1..Len(collected) |-> collected[k].args[1].str]
        full_line == RStrip(indent_str \o bullet \o <<SP>> \o Strip(Join(<<SP>>, content)))
    IN  SelectSeq(loop, LAMBDA e : e.op # "content") \o
        (IF full_line # <<>>
         THEN <<SetFont("", 10), SafeMultiCell(0, 6, full_line, "li", path)>>
         ELSE <<>>)

\* the items of a top-level list
RenderTopItems(list, path) ==
    LET pos == LiPositions(list.kids)
        F[i \in 0..Len(pos)] ==
            IF i = 0 THEN <<>>
            ELSE F[i - 1] \o render_list_item(list.kids[pos[i]], TopBullet(list.name, i),
                                               0, path \o <<pos[i]>>)
    IN  F[Len(pos)]

\* strong/b, em/i and u: the flattened text in one style
StyledEmit(tag, style, kind, path) ==
    LET txt == clean_text(Str(get_text(tag)))
    IN  CleanEchoes(Str(get_text(tag))) \o
        (IF Strip(txt) # <<>>
         THEN <<SetFont(style, 10), SafeMultiCell(0, 6, txt, kind, path)>>
         ELSE <<>>)

RECURSIVE render_tag(_, _)
render_tag(tag, path) ==
    IF IsText(tag) THEN
        LET txt == clean_text(Str(tag.text))
        IN  CleanEchoes(Str(tag.text)) \o
            (IF Strip(txt) # <<>> THEN TextNodeEmit(txt, path) ELSE <<>>)
    ELSE IF tag.name = "p" THEN
        LET F[i \in 0..Len(tag.kids)] ==
                IF i = 0 THEN <<>> ELSE F[i - 1] \o render_tag(tag.kids[i], path \o <<i>>)
        IN  F[Len(tag.kids)] \o <<Ln(2)>>
    ELSE IF tag.name \in {"strong", "b"} THEN StyledEmit(tag, "B", "bold", path)
    ELSE IF tag.name \in {"em", "i"} THEN StyledEmit(tag, "I", "italic", path)
    ELSE IF tag.name = "u" THEN StyledEmit(tag, "U", "underline", path)
    ELSE IF tag.name \in {"ul", "ol"} THEN RenderTopItems(tag, path)
    ELSE
        LET txt == clean_text(Str(get_text(tag)))
        IN  CleanEchoes(Str(get_text(tag))) \o
            (IF Strip(txt) # <<>>
             THEN <<SetFont("", 10), SafeMultiCell(0, 6, txt, "fallback", path)>>
             ELSE <<>>)

\* html_content: a missing cell, a whitespace-only string (raw), or markup,
\* given by the nodes the parser returns for it (kids)
NaComment == [form |-> "nan", raw |-> <<>>, kids |-> <<>>]
RawComment(s) == [form |-> "raw", raw |-> s, kids |-> <<>>]
Markup(kids) == [form |-> "markup", raw |-> <<>>, kids |-> kids]

\* pd.isna(html_content) or not str(html_content).strip()
NoComment(h) == h.form = "nan" \/ (h.form = "raw" /\ Strip(h.raw) = <<>>)

TABLE_ERROR == "Error: HTML contains a table. PDF generation for tables is not supported."

render_html_comment(h) ==
    IF NoComment(h) THEN
        <<SetFont("I", 10), SafeMultiCell(0, 6, NO_COMMENT, "placeholder", <<>>)>>
    ELSE IF soup_find_table(h.kids) THEN
        <<Echo(TABLE_ERROR, Str(<<>>))>>
    ELSE
        LET F[i \in 0..Len(h.kids)] ==
                IF i = 0 THEN <<>> ELSE F[i - 1] \o render_tag(h.kids[i], <<i>>)
        IN  F[Len(h.kids)]

(***************************************************************************)
(* The canvas.  RunOps executes a sequence of calls on the FPDF object and *)
(* stdout.  The canvas may throw on any text it is given: failAt is the    *)
(* number of the emission that throws (0: none does).  Once an exception   *)
(* is pending nothing more runs.                                           *)
(***************************************************************************)
NoExc == [kind |-> "none", payload |-> Missing]
NewPdf == [style |-> "", size |-> 12, blocks |-> <<>>]

Block(fn, txt, style, size, kind, src) ==
    [fn |-> fn, txt |-> txt, style |-> style, size |-> size, kind |-> kind, src |-> src]

\* what safe_cell prints in its except clause: args[2] if len(args) > 2 else args[0]
safe_cell_report(args) ==
    [msg |-> "Failed on cell text:", val |-> IF Len(args) > 2 THEN args[3] ELSE args[1]]

\* what safe_multi_cell prints in its except clause: args[0]
safe_multi_cell_report(args) ==
    [msg |-> "Failed on multi_cell text:", val |-> args[1]]

Max(S) == CHOOSE x \in S : \A y \in S : y <= x

\* The calls of ops run in order up to the emission that throws.  A set_font
\* sets the style and size for what follows; a cell, multi_cell or ln adds a
\* block in the style and size then current; an echo prints.  When pdf.cell
\* or pdf.multi_cell throws, the wrapper prints its report and raises again.
RunOps(ops, p, o, failAt) ==
    LET emissions == SelectSeq([i \in 1..Len(ops) |-> i], LAMBDA i : IsEmission(ops[i]))
        stop == IF failAt \in 1..Len(emissions) THEN emissions[failAt] ELSE Len(ops) + 1
        FontAt(i) ==
            LET sf == {j \in 1..(i - 1) : ops[j].op = "set_font"}
            IN  IF sf = {} THEN [style |-> p.style, size |-> p.size]
                ELSE [style |-> ops[Max(sf)].style, size |-> ops[Max(sf)].size]
        ran == [i \in 1..(stop - 1) |-> i]
        drawn == SelectSeq(ran, LAMBDA i : ops[i].op \in {"cell", "multi_cell", "ln"})
        said == SelectSeq(ran, LAMBDA i : ops[i].op = "echo")
        BlockOf(i) ==
            IF ops[i].op = "ln"
            THEN Block("ln", <<>>, FontAt(i).style, FontAt(i).size, "", <<>>)
            ELSE Block(ops[i].op, ops[i].args[3].str, FontAt(i).style, FontAt(i).size,
                       ops[i].kind, ops[i].src)
    IN  [pdf |-> [style |-> FontAt(stop).style, size |-> FontAt(stop).size,
                  blocks |-> p.blocks \o [k \in 1..Len(drawn) |-> BlockOf(drawn[k])]],
         out |-> o \o [k \in 1..Len(said) |-> [msg |-> ops[said[k]].kind, val |-> ops[said[k]].args[1]]]
                   \o (IF stop > Len(ops) THEN <<>>
                       ELSE IF ops[stop].op = "cell" THEN <<safe_cell_report(ops[stop].args)>>
                       ELSE <<safe_multi_cell_report(ops[stop].args)>>),
         thrown |-> IF stop > Len(ops) THEN NoExc
                    ELSE [kind |-> ops[stop].op, payload |-> ops[stop].args[3]],
         n |-> IF stop > Len(ops) THEN Len(emissions) ELSE failAt]

NumEmissions(ops) == Len(SelectSeq(ops, IsEmission))

TextBlocks(blocks) == SelectSeq(blocks, LAMBDA b : b.fn # "ln")

(***************************************************************************)
(* SpecRender: render_html_comment on one comment: a missing or blank one, *)
(* or markup, whose tree the parser builds node by node.                   *)
(***************************************************************************)
ListTags == {"ul", "ol"}
OtherTags == {"p", "strong", "em", "u", "span", "div", "table"}

RECURSIVE Size(_)
\* the number of nodes
Size(kids) ==
    LET F[i \in 0..Len(kids)] == IF i = 0 THEN 0 ELSE F[i - 1] + 1 + Size(kids[i].kids)
    IN  F[Len(kids)]

RECURSIVE Names(_)
Names(kids) == UNION {{kids[i].name} \cup Names(kids[i].kids) : i \in 1..Len(kids)}

\* one list and nothing but lists, items and their texts
ListOnly(kids) ==
    /\ Len(kids) = 1
    /\ kids[1].name \in ListTags
    /\ Names(kids) \subseteq ListTags \cup {"li", "#text"}

RECURSIVE SpineDepth(_)
\* the open elements: the chain of last children that are tags
SpineDepth(kids) ==
    IF kids = <<>> \/ IsText(kids[Len(kids)]) THEN 0
    ELSE 1 + SpineDepth(kids[Len(kids)].kids)

RECURSIVE SpineNode(_, _)
\* the open element at depth d (0: the document itself)
SpineNode(node, d) ==
    IF d = 0 THEN node ELSE SpineNode(node.kids[Len(node.kids)], d - 1)

RECURSIVE AppendAt(_, _, _)
\* the children kids after the parser has added node as the last child of the
\* open element at depth d
AppendAt(kids, d, node) ==
    IF d = 0 THEN Append(kids, node)
    ELSE [kids EXCEPT ![Len(kids)] = [@ EXCEPT !.kids = AppendAt(@, d - 1, node)]]

\* the nodes the parser may put under parent: items (and the whitespace
\* between them) under a list, anything but an item elsewhere; two texts are
\* never adjacent
ChildrenFor(parent) ==
    LET texts == IF parent.name \in ListTags THEN {TextNode(<<10>>)}
                 ELSE {TextNode(<<97>>), TextNode(<<SP>>)}
        tags == IF parent.name \in ListTags THEN {"li"} ELSE ListTags \cup OtherTags
    IN  (IF parent.kids # <<>> /\ IsText(parent.kids[Len(parent.kids)]) THEN {} ELSE texts)
        \cup {Tag(nm, <<>>) : nm \in tags}

BlankComments == {NaComment, RawComment(<<>>), RawComment(<<SP>>), RawComment(<<10, SP>>)}

\* the canvas as render_html_comment finds it: bold, size 10 (the "Response:" label)
PdfAtComment == [style |-> "B", size |-> 10, blocks |-> <<>>]

(***************************************************************************)
(* SpecSan: clean_text on bounded inputs                                   *)
(***************************************************************************)
SanChars == {SP, 97, REPLACEMENT, BMP_MAX, 65536, 128512}

RECURSIVE StringsUpTo(_, _)
StringsUpTo(chars, n) ==
    IF n = 0 THEN {<<>>}
    ELSE LET shorter == StringsUpTo(chars, n - 1)
         IN  shorter \cup {Append(s, c) : s \in shorter, c \in chars}

SanInputs == {Missing} \cup {Str(s) : s \in StringsUpTo(SanChars, MaxStrLen)} \cup {Num(n) : n \in {0, 7, 42}}

Idle ==
    /\ html = NaComment
    /\ pdf = NewPdf
    /\ thrown = NoExc
    /\ rows = <<>>
    /\ gi = 0 /\ ti = 0 /\ ri = 0
    /\ files = <<>>
    /\ log = <<>>

InitSan ==
    /\ pc = "san_in"
    /\ sanIn \in SanInputs
    /\ sanOut = <<>>
    /\ out = <<>>
    /\ Idle

CleanOnce ==
    /\ pc = "san_in"
    /\ sanOut' = <<clean_text(sanIn)>>
    /\ out' = out \o clean_text_prints(sanIn)
    /\ pc' = "san_once"
    /\ UNCHANGED <<sanIn, html, pdf, thrown, rows, gi, ti, ri, files, log>>

CleanAgain ==
    /\ pc = "san_once"
    /\ sanOut' = Append(sanOut, clean_text(Str(sanOut[1])))
    /\ out' = out \o clean_text_prints(Str(sanOut[1]))
    /\ pc' = "san_twice"
    /\ UNCHANGED <<sanIn, html, pdf, thrown, rows, gi, ti, ri, files, log>>

NextSan == CleanOnce \/ CleanAgain

SpecSan == InitSan /\ [][NextSan]_vars


InitRender ==
    /\ pc = "parse"
    /\ html \in BlankComments \cup {Markup(<<>>)}
    /\ pdf = PdfAtComment
    /\ out = <<>>
    /\ thrown = NoExc
    /\ sanIn = Missing /\ sanOut = <<>>
    /\ rows = <<>>
    /\ gi = 0 /\ ti = 0 /\ ri = 0
    /\ files = <<>>
    /\ log = <<>>

\* The parser adds one node to the tree of a markup comment: as the last
\* child of one of the open elements.  A tree that is one list grows to
\* MaxListNodes nodes, any other to MaxNodes.
ParseNode ==
    /\ pc = "parse"
    /\ html.form = "markup"
    /\ \E d \in 0..SpineDepth(html.kids) :
           LET parent == SpineNode(Tag("#root", html.kids), d)
           IN  \E node \in ChildrenFor(parent) :
                   LET kids == AppendAt(html.kids, d, node)
                   IN  /\ Size(kids) <= MaxListNodes
                       /\ Size(kids) <= MaxNodes \/ ListOnly(kids)
                       /\ html' = Markup(kids)
    /\ UNCHANGED <<pc, sanIn, sanOut, pdf, out, thrown, rows, gi, ti, ri, files, log>>

\* the comment is parsed: a markup string has at least one node
Parsed == html.form # "markup" \/ html.kids # <<>>

\* render_html_comment returns
RenderReturns ==
    /\ pc = "parse" /\ Parsed
    /\ \E r \in {RunOps(render_html_comment(html), pdf, out, 0)} :
           /\ pdf' = r.pdf
           /\ out' = r.out
    /\ pc' = "rendered"
    /\ UNCHANGED <<sanIn, sanOut, html, thrown, rows, gi, ti, ri, files, log>>

\* the canvas throws on one of the emissions of render_html_comment
RenderRaises ==
    /\ pc = "parse" /\ Parsed
    /\ \E ops \in {render_html_comment(html)} :
       \E failAt \in 1..NumEmissions(ops) :
       \E r \in {RunOps(ops, pdf, out, failAt)} :
           /\ pdf' = r.pdf
           /\ out' = r.out
           /\ thrown' = r.thrown
    /\ pc' = "raised"
    /\ UNCHANGED <<sanIn, sanOut, html, rows, gi, ti, ri, files, log>>

NextRender == ParseNode \/ RenderReturns \/ RenderRaises

SpecRender == InitRender /\ [][NextRender]_vars

(***************************************************************************)
(* Spec: generate_pdfs.  The sheet is read and grouped; the state machine  *)
(* starts at the loop over the groups.  A row holds the five grouping      *)
(* columns, the feedback type and the question, which is the row's number  *)
(* in the sheet; the launch date is a date and the description a fixed     *)
(* text.  The response comment of a row is drawn when the row is written.  *)
(***************************************************************************)
Reviewees == {<<65, 32, 66>>, <<67>>}      \* "A B", "C"
Cycles == {<<81, 49>>}                     \* "Q1"
Teams == {<<84, 49>>, <<84, 50>>}          \* "T1", "T2"
Positions == {<<68, 101, 118>>}            \* "Dev"
Reviewers == {<<82>>}                      \* "R"
DATE == <<50,48,50,52,45,48,49,45,48,49>>  \* "2024-01-01"
DESCRIPTION == <<100>>                     \* "d"

\* feedback_type_mapping, in its declared order
feedback_type_mapping ==
    << [ftype |-> "self_shared_feedback",
        header |-> <<69,109,112,108,111,121,101,101,32,82,101,118,105,101,119>>],           \* "Employee Review"
       [ftype |-> "auto_shared_feedback",
        header |-> <<83,117,112,101,114,118,105,115,111,114,32,82,101,118,105,101,119>>],   \* "Supervisor Review"
       [ftype |-> "shared_feedback",
        header |-> <<83,117,112,101,114,118,105,115,111,114,32,82,101,118,105,101,119>>] >>

FeedbackTypes == {feedback_type_mapping[i].ftype : i \in 1..Len(feedback_type_mapping)}
                     \cup {"peer_feedback"}

RowKinds ==
    [reviewee : Reviewees, cycle : Cycles, team : Teams, position : Positions,
     reviewer : Reviewers, ftype : FeedbackTypes]

Sheets == UNION {[1..n -> RowKinds] : n \in 0..MaxRows}

\* group_columns
KeyOf(row) == <<row.reviewee, row.cycle, row.team, row.position, row.reviewer>>

RECURSIVE SeqLess(_, _)
\* the order of Python strings
SeqLess(a, b) ==
    IF a = <<>> THEN b # <<>>
    ELSE IF b = <<>> THEN FALSE
    ELSE IF a[1] # b[1] THEN a[1] < b[1]
    ELSE SeqLess(Tail(a), Tail(b))

KeyLess(k1, k2) ==
    \E i \in 1..5 : (\A j \in 1..(i - 1) : k1[j] = k2[j]) /\ SeqLess(k1[i], k2[i])

\* df.groupby(group_columns): the groups in the sorted order of their keys
GroupKeys == {KeyOf(rows[i]) : i \in 1..Len(rows)}
NumGroups == Cardinality(GroupKeys)
GroupKey(g) == CHOOSE k \in GroupKeys : Cardinality({k2 \in GroupKeys : KeyLess(k2, k)}) = g - 1

\* the rows of group g, as their numbers in the sheet, in sheet order
GroupRows(g) == SelectSeq([i \in 1..Len(rows) |-> i], LAMBDA i : KeyOf(rows[i]) = GroupKey(g))

\* a filter that keeps every row of the group
FeedbackData_all(g, ftype) == GroupRows(g)

\* group[group["Feedback type"] == feedback_type]
FeedbackData(g, ftype) == SelectSeq(GroupRows(g), LAMBDA i : rows[i].ftype = ftype)

\* the file name of a group
FileName(key) == ReplaceSpace(PyStr(Str(key[1]))) \o <<95>> \o key[2] \o <<46,112,100,102>>

\* the title block
TitleOps(key) ==
    << SetFont("B", 16),
       SafeCell(200, 10, clean_text(Str(key[1] \o <<32,45,32>> \o key[2])), "title", <<>>),
       SetFont("", 10),
       SafeCell(0, 5, clean_text(Str(<<84,101,97,109,58,32>> \o key[3])), "team", <<>>),
       SafeCell(0, 5, clean_text(Str(<<80,111,115,105,116,105,111,110,58,32>> \o key[4])), "position", <<>>),
       SetFont("BI", 10),
       Ln(10) >>

\* the header of the section of feedback_type_mapping[t]
HeaderOps(t) ==
    << SetFont("", 14),
       SafeCell(200, 10, clean_text(Str(feedback_type_mapping[t].header)), "header", <<t>>),
       Ln(5) >>

\* date / reviewer, question, description and the "Response:" label of sheet row i
RowOps(i, reviewer) ==
    << SetFont("", 8),
       SafeMultiCell(0, 8, clean_text(Str(<<68,97,116,101,58,32>> \o DATE
                                          \o <<32,47,32,82,101,118,105,101,119,101,114,58,32>>
                                          \o reviewer)), "date", <<i>>),
       SetFont("B", 12),
       SafeMultiCell(0, 7, clean_text(Str(<<81,117,101,115,116,105,111,110,58,32>> \o PyStr(Num(i)))),
                     "question", <<i>>),
       SetFont("B", 10),
       SafeMultiCell(0, 6, clean_text(Str(DESCRIPTION)), "description", <<i>>),
       SetFont("B", 10),
       SafeCell(0, 6, <<82,101,115,112,111,110,115,101,58>>, "response", <<i>>) >>

\* the response comments drawn for the rows: none, styled nodes followed by
\* texts, lists and unknown tags, and tables at every depth up to
\* MaxTableDepth, alone, after and before other content
RECURSIVE Wrapped(_, _)
Wrapped(node, d) == IF d = 0 THEN node ELSE Tag("div", <<Wrapped(node, d - 1)>>)

TableComments ==
    UNION {{Markup(<<Wrapped(Tag("table", <<TextNode(<<97>>)>>), d)>>),
            Markup(<<TextNode(<<97>>), Wrapped(Tag("table", <<TextNode(<<97>>)>>), d)>>),
            Markup(<<Wrapped(Tag("table", <<TextNode(<<97>>)>>), d), Tag("strong", <<TextNode(<<97>>)>>)>>)}
           : d \in 0..MaxTableDepth}

PlainComments ==
    {NaComment,
     Markup(<<Tag("strong", <<TextNode(<<97>>)>>), TextNode(<<97>>),
              Tag("u", <<TextNode(<<97>>)>>),
              Tag("ol", <<Tag("li", <<TextNode(<<97>>)>>)>>),
              Tag("div", <<TextNode(<<97>>)>>)>>),
     Markup(<<Tag("p", <<Tag("em", <<TextNode(<<97>>)>>), TextNode(<<128512>>)>>)>>)}

RowComments == PlainComments \cup TableComments

Init ==
    /\ pc = "group"
    /\ rows \in Sheets
    /\ gi = 1 /\ ti = 0 /\ ri = 0
    /\ pdf = NewPdf
    /\ out = <<>>
    /\ thrown = NoExc
    /\ files = <<>>
    /\ log = <<>>
    /\ sanIn = Missing /\ sanOut = <<>>
    /\ html = NaComment

\* the exception leaves generate_pdfs: the run ends with the document unwritten
Abort(r) ==
    /\ pc' = "aborted"
    /\ pdf' = r.pdf
    /\ out' = r.out
    /\ thrown' = r.thrown

\* a new document and its title block
BeginGroup ==
    /\ pc = "group" /\ gi <= NumGroups
    /\ \E failAt \in 0..NumEmissions(TitleOps(GroupKey(gi))) :
       \E r \in {RunOps(TitleOps(GroupKey(gi)), NewPdf, out, failAt)} :
           IF r.thrown # NoExc
           THEN Abort(r) /\ UNCHANGED <<ti, ri>>
           ELSE /\ pdf' = r.pdf /\ out' = r.out
                /\ pc' = "section" /\ ti' = 1 /\ ri' = 0
                /\ UNCHANGED thrown
    /\ log' = <<>>
    /\ UNCHANGED <<sanIn, sanOut, html, rows, gi, files>>

\* a feedback type with no row in the group: no section
SkipSection ==
    /\ pc = "section" /\ ti <= Len(feedback_type_mapping)
    /\ FeedbackData(gi, feedback_type_mapping[ti].ftype) = <<>>
    /\ ti' = ti + 1
    /\ UNCHANGED <<pc, sanIn, sanOut, html, pdf, out, thrown, rows, gi, ri, files, log>>

\* the header of a section that has rows
SectionHeader ==
    /\ pc = "section" /\ ti <= Len(feedback_type_mapping)
    /\ FeedbackData(gi, feedback_type_mapping[ti].ftype) # <<>>
    /\ \E failAt \in 0..NumEmissions(HeaderOps(ti)) :
       \E r \in {RunOps(HeaderOps(ti), pdf, out, failAt)} :
           IF r.thrown # NoExc
           THEN Abort(r) /\ UNCHANGED ri
           ELSE /\ pdf' = r.pdf /\ out' = r.out
                /\ pc' = "row" /\ ri' = 1
                /\ UNCHANGED thrown
    /\ UNCHANGED <<sanIn, sanOut, html, rows, gi, ti, files, log>>

\* one row of the section: its fields, then its comment through
\* render_html_comment, then the gap; after the last row the next type
EmitRow ==
    /\ pc = "row"
    /\ \E data \in {FeedbackData(gi, feedback_type_mapping[ti].ftype)} :
       \E c \in RowComments :
       \E rowOps \in {RowOps(data[ri], GroupKey(gi)[5])} :
       \E commentOps \in {render_html_comment(c)} :
       \E failAt \in 0..(NumEmissions(rowOps) + NumEmissions(commentOps)) :
       \E r1 \in {RunOps(rowOps, pdf, out, failAt)} :
           IF r1.thrown # NoExc
           THEN Abort(r1) /\ UNCHANGED <<ti, ri, log>>
           ELSE
               \E r2 \in {RunOps(commentOps \o <<Ln(5)>>, r1.pdf, r1.out,
                                 IF failAt > r1.n THEN failAt - r1.n ELSE 0)} :
                   /\ log' = Append(log,
                          [g |-> gi, row |-> data[ri],
                           table |-> c.form = "markup" /\ HasTag(c.kids, "table"),
                           blocks |-> Len(TextBlocks(r2.pdf.blocks)) - Len(TextBlocks(r1.pdf.blocks)),
                           echoes |-> SubSeq(r2.out, Len(r1.out) + 1, Len(r2.out)),
                           raised |-> r2.thrown # NoExc])
                   /\ IF r2.thrown # NoExc
                      THEN Abort(r2) /\ UNCHANGED <<ti, ri>>
                      ELSE /\ pdf' = r2.pdf /\ out' = r2.out
                           /\ IF ri < Len(data)
                              THEN ri' = ri + 1 /\ UNCHANGED <<pc, ti>>
                              ELSE pc' = "section" /\ ti' = ti + 1 /\ ri' = 0
                           /\ UNCHANGED thrown
    /\ UNCHANGED <<sanIn, sanOut, html, rows, gi, files>>

\* pdf.output(filepath): the file of that name now holds the document of this
\* group (a document is recorded by the key of its group)
Output ==
    /\ pc = "section" /\ ti > Len(feedback_type_mapping)
    /\ LET name == FileName(GroupKey(gi))
       IN  /\ files' = [n \in DOMAIN files \cup {name} |->
                           IF n = name THEN GroupKey(gi) ELSE files[n]]
           /\ out' = Append(out, [msg |-> "Generated:", val |-> Str(name)])
    /\ gi' = gi + 1
    /\ pc' = "group" /\ ti' = 0
    /\ UNCHANGED <<sanIn, sanOut, html, pdf, thrown, rows, ri, log>>

\* pdf.output throws: the path is printed and the exception raised again
OutputFails ==
    /\ pc = "section" /\ ti > Len(feedback_type_mapping)
    /\ out' = Append(out, [msg |-> "Failed to write:", val |-> Str(FileName(GroupKey(gi)))])
    /\ thrown' = [kind |-> "output", payload |-> Str(FileName(GroupKey(gi)))]
    /\ pc' = "aborted"
    /\ UNCHANGED <<sanIn, sanOut, html, pdf, rows, gi, ti, ri, files, log>>

\* after the last group
Finish ==
    /\ pc = "group" /\ gi > NumGroups
    /\ out' = Append(out, [msg |-> "All PDFs have been created in:", val |-> Str(<<>>)])
    /\ pc' = "done"
    /\ UNCHANGED <<sanIn, sanOut, html, pdf, thrown, rows, gi, ti, ri, files, log>>

Next ==
    \/ BeginGroup
    \/ SkipSection
    \/ SectionHeader
    \/ EmitRow
    \/ Output
    \/ OutputFails
    \/ Finish

Spec == Init /\ [][Next]_vars

(***************************************************************************)
(* Claims on the list renderer (SpecRender)                                *)
(***************************************************************************)
RECURSIVE PathsIn(_, _)
\* the paths of all nodes below kids
PathsIn(kids, prefix) ==
    UNION {{prefix \o <<i>>} \cup PathsIn(kids[i].kids, prefix \o <<i>>) : i \in 1..Len(kids)}

RECURSIVE NodeAt(_, _)
NodeAt(kids, path) ==
    IF Len(path) = 1 THEN kids[path[1]] ELSE NodeAt(kids[path[1]].kids, Tail(path))

Front(path) == SubSeq(path, 1, Len(path) - 1)
IsProperPrefix(p, q) == Len(p) < Len(q) /\ SubSeq(q, 1, Len(p)) = p

ItemPaths == {p \in PathsIn(html.kids, <<>>) : NodeAt(html.kids, p).name = "li"}

\* an item none of whose children other than nested lists holds visible text
NoDirectText(li) ==
    \A i \in 1..Len(li.kids) :
        \/ li.kids[i].name \in ListTags
        \/ Strip(Join(<<>>, AllStrings(li.kids[i]))) = <<>>

NestedLists(li) == {i \in 1..Len(li.kids) : li.kids[i].name \in ListTags}

LinesOf(path) == {i \in 1..Len(pdf.blocks) : pdf.blocks[i].kind = "li" /\ pdf.blocks[i].src = path}

\* C1: a list item without direct text gets no line of its own, whether it has
\* no nested list (it contributes nothing) or one (only the nested lines appear).
C1_NoBareBullet ==
    pc = "rendered" =>
        \A p \in ItemPaths :
            LET li == NodeAt(html.kids, p)
            IN  NoDirectText(li) /\ Cardinality(NestedLists(li)) <= 1 => LinesOf(p) = {}

\* C9: the line of an item comes before the lines of the lists nested in it.
C9_ParentLineFirst ==
    pc = "rendered" =>
        \A i, j \in 1..Len(pdf.blocks) :
            /\ pdf.blocks[i].kind = "li" /\ pdf.blocks[j].kind = "li"
            /\ IsProperPrefix(pdf.blocks[i].src, pdf.blocks[j].src)
            => i < j

\* the number of the item at path among the items of its list
ItemNumber(path) ==
    LET siblings == NodeAt(html.kids, Front(path)).kids
    IN  Cardinality({i \in 1..path[Len(path)] : siblings[i].name = "li"})

\* the number of items the item at path is nested in
ItemDepth(path) ==
    Cardinality({n \in 1..(Len(path) - 1) : NodeAt(html.kids, SubSeq(path, 1, n)).name = "li"})

ExpectedLabel(path) ==
    Repeat(INDENT_UNIT, ItemDepth(path)) \o
    (IF NodeAt(html.kids, Front(path)).name = "ol"
     THEN Digits(ItemNumber(path)) \o <<46>> ELSE <<BULLET>>)

StartsWith(txt, prefix) ==
    /\ Len(txt) >= Len(prefix)
    /\ SubSeq(txt, 1, Len(prefix)) = prefix
    /\ Len(txt) > Len(prefix) => txt[Len(prefix) + 1] = SP

RECURSIVE Reached(_)
\* the node at path is one the walker hands to the list renderer or walks
\* itself: a top-level node, a child of a walked paragraph, an item of a
\* rendered list, a list directly inside a rendered item
Reached(path) ==
    IF Len(path) = 1 THEN TRUE
    ELSE LET node == NodeAt(html.kids, path)
             parent == NodeAt(html.kids, Front(path))
         IN  /\ Reached(Front(path))
             /\ \/ parent.name = "p"
                \/ node.name = "li" /\ parent.name \in ListTags
                \/ node.name \in ListTags /\ parent.name = "li"

\* C6: every line of a list item starts with the label of its own list: "k."
\* for the k-th item of an ordered list, counted from 1 in that list alone, the
\* bullet glyph for an item of an unordered list, whatever the lists around it;
\* and every item with text of a list the renderer reaches has one such line
\* (a comment that holds a table is not rendered at all).
C6_LocalNumbering ==
    pc = "rendered" =>
        /\ \A i \in 1..Len(pdf.blocks) :
               pdf.blocks[i].kind = "li" =>
                   StartsWith(pdf.blocks[i].txt, ExpectedLabel(pdf.blocks[i].src))
        /\ \A p \in ItemPaths :
               /\ Reached(p)
               /\ ~NoDirectText(NodeAt(html.kids, p))
               /\ ~HasTag(html.kids, "table")
               => Cardinality(LinesOf(p)) = 1

C6_Example ==
    Markup(<<Tag("ol", <<Tag("li", <<>>),
                         Tag("li", <<Tag("ol", <<Tag("li", <<>>), Tag("li", <<>>)>>)>>),
                         Tag("li", <<>>)>>)>>)

\* the outer list of 3 items whose item 2 holds an inner list of 2 items:
\* inner labels 1. and 2., outer labels 1., 2., 3.
C6_Witness ==
    /\ pc = "rendered"
    /\ html = C6_Example
    /\ {<<b.src, b.txt>> : b \in {pdf.blocks[i] : i \in 1..Len(pdf.blocks)}} =
           {<<<<1, 1>>, <<49, 46>>>>, <<<<1, 2>>, <<50, 46>>>>, <<<<1, 3>>, <<51, 46>>>>,
            <<<<1, 2, 1, 1>>, INDENT_UNIT \o <<49, 46>>>>,
            <<<<1, 2, 1, 2>>, INDENT_UNIT \o <<50, 46>>>>}

(***************************************************************************)
(* Claims on the emitter wrappers and the assembler (Spec)                 *)
(***************************************************************************)
\* C2: when the canvas throws on a text, the diagnostic printed last holds that
\* text and the exception is raised again, for cell and multi_cell alike.
C2_PayloadReported ==
    pc = "aborted" /\ thrown.kind \in {"cell", "multi_cell"} =>
        /\ out # <<>>
        /\ out[Len(out)].val = thrown.payload

\* C3: after a run that completes, there are as many output files as groups.
C3_OneFilePerGroup == pc = "done" => Cardinality(DOMAIN files) = NumGroups

\* the rows of group g with feedback type t, as a set of sheet row numbers
RowsOfType(g, t) ==
    {i \in 1..Len(rows) : KeyOf(rows[i]) = GroupKey(g) /\ rows[i].ftype = feedback_type_mapping[t].ftype}

\* the elements of a set of numbers in increasing order
Ascending(S) ==
    [k \in 1..Cardinality(S) |-> CHOOSE x \in S : Cardinality({y \in S : y < x}) = k - 1]

\* the section headers and question lines a document of group g must hold,
\* in order: for each type that has rows, its header and then its rows
ExpectedOutline(g) ==
    LET Section(t) ==
            IF RowsOfType(g, t) = {} THEN <<>>
            ELSE <<[kind |-> "header", src |-> <<t>>, txt |-> feedback_type_mapping[t].header]>>
                 \o [k \in 1..Cardinality(RowsOfType(g, t)) |->
                        [kind |-> "question", src |-> <<Ascending(RowsOfType(g, t))[k]>>,
                         txt |-> <<81,117,101,115,116,105,111,110,58,32>>
                                     \o Digits(Ascending(RowsOfType(g, t))[k])]]
    IN  Section(1) \o Section(2) \o Section(3)

Outline(blocks) ==
    LET sel == SelectSeq(blocks, LAMBDA b : b.kind \in {"header", "question"})
    IN  [k \in 1..Len(sel) |-> [kind |-> sel[k].kind, src |-> sel[k].src, txt |-> sel[k].txt]]

DocumentComplete == pc = "section" /\ ti > Len(feedback_type_mapping)

\* C7: a complete document holds, for each feedback type in the declared
\* order, a section header exactly when the group has a row of that type, and
\* under it the rows of that type in sheet order.
C7_SectionsMatchRows == DocumentComplete => Outline(pdf.blocks) = ExpectedOutline(gi)

\* a group without auto_shared_feedback rows and with two shared_feedback
\* rows: one "Supervisor Review" header, from shared_feedback
C7_Witness ==
    /\ DocumentComplete
    /\ RowsOfType(gi, 2) = {}
    /\ Cardinality(RowsOfType(gi, 3)) = 2
    /\ Len(SelectSeq(pdf.blocks, LAMBDA b : b.kind = "header")) = 1
    /\ \E k \in 1..Len(pdf.blocks) : pdf.blocks[k].kind = "header" /\ pdf.blocks[k].src = <<3>>

\* C5: a comment that holds a table anywhere gives no text block and exactly
\* one diagnostic and raises nothing; the rows after it are still written and
\* the document of the group is still output.
C5_TableRejected ==
    /\ \A k \in 1..Len(log) :
           log[k].table =>
               /\ log[k].blocks = 0
               /\ log[k].echoes = <<[msg |-> TABLE_ERROR, val |-> Str(<<>>)]>>
               /\ ~log[k].raised
    /\ pc \in {"group", "done"} /\ gi > 1 =>
           /\ [k \in 1..Len(log) |-> log[k].row] =
                  Ascending(RowsOfType(gi - 1, 1)) \o Ascending(RowsOfType(gi - 1, 2))
                      \o Ascending(RowsOfType(gi - 1, 3))
           /\ FileName(GroupKey(gi - 1)) \in DOMAIN files
           /\ files[FileName(GroupKey(gi - 1))] = GroupKey(gi - 1)

\* a table comment followed by a row that is rendered, in a document that is output
C5_Witness ==
    /\ pc = "done"
    /\ \E k \in 1..(Len(log) - 1) :
           log[k].table /\ ~log[k + 1].table /\ log[k + 1].blocks > 0

\* the style each kind of node or field is emitted in
StyleOf(kind) ==
    CASE kind \in {"text", "li", "fallback", "team", "position", "header", "date"} -> ""
      [] kind \in {"bold", "title", "question", "description", "response"} -> "B"
      [] kind \in {"italic", "placeholder"} -> "I"
      [] kind = "underline" -> "U"

\* C10: every text block is in the style of its own node kind or field,
\* whatever was emitted before it.
C10_StyleDoesNotLeak ==
    \A k \in 1..Len(pdf.blocks) :
        pdf.blocks[k].fn # "ln" => pdf.blocks[k].style = StyleOf(pdf.blocks[k].kind)

\* a text node right after a bold node, a list item line after an underline
\* node, and the date line of the row after a missing comment
C10_Witness ==
    /\ \E k \in 2..Len(pdf.blocks) :
           pdf.blocks[k - 1].kind = "bold" /\ pdf.blocks[k].kind = "text" /\ pdf.blocks[k].style = ""
    /\ \E k \in 2..Len(pdf.blocks) :
           pdf.blocks[k - 1].kind = "underline" /\ pdf.blocks[k].kind = "li" /\ pdf.blocks[k].style = ""
    /\ \E j, k \in 1..Len(pdf.blocks) :
           j < k /\ pdf.blocks[j].kind = "placeholder" /\ pdf.blocks[k].kind = "date"
                 /\ pdf.blocks[k].style = ""

\* C4 as stated: every call returns a non-empty string, the empty string included.
C4_AlwaysNonEmpty == pc # "san_in" => sanOut[1] # <<>>

\* C4 amended: clean_text returns the sentinel for a missing input and, for any
\* other input, a string as long as the input's string form; the result is
\* empty exactly when the input is the empty string.
C4_NonEmptyUnlessEmptyInput ==
    pc # "san_in" =>
        /\ IsNa(sanIn) => sanOut[1] = SENTINEL
        /\ ~IsNa(sanIn) => Len(sanOut[1]) = Len(PyStr(sanIn))
        /\ sanOut[1] = <<>> <=> sanIn = Str(<<>>)
        /\ SENTINEL # <<>>

C4_Witness == pc = "san_once" /\ IsNa(sanIn) /\ sanOut = <<SENTINEL>>

\* C8: sanitizing an already sanitized text changes nothing,
\* clean_text(clean_text(s)) = clean_text(s).
C8_Idempotent == pc = "san_twice" => sanOut[2] = sanOut[1]

C8_Witness ==
    /\ pc = "san_twice"
    /\ \E i \in 1..Len(sanIn.str) : sanIn.str[i] > BMP_MAX /\ sanOut[2][i] = REPLACEMENT
    /\ out # <<>>

====
